---------------------------- MODULE Spec2Model ----------------------------
(***************************************************************************)
(* Model of executor/executor_fuchsia.h (syzkaller executor, Fuchsia       *)
(* backend): per-thread kernel coverage collection (cover_enable,          *)
(* cover_reset, cover_collect), the return-code normalizer                 *)
(* (execute_syscall) and the result reporter (write_call_output).          *)
(*                                                                         *)
(* 64-bit machine words are little-endian tuples of four 16-bit limbs      *)
(* (index 1 is the least significant limb), 32-bit words tuples of two     *)
(* limbs, so that additions wrap at 2^64 and truncations cut at 2^32 as    *)
(* they do in the compiled code.                                           *)
(***************************************************************************)
EXTENDS Integers, Sequences, FiniteSets, TLC

\* Capacity of the per-thread tables.  The source value is 1ULL << 20; the
\* model scales it down, every table keeps exactly this many slots.
MAX_COVSZ == 3

Threads == {1, 2}
Slots == 1..MAX_COVSZ

-----------------------------------------------------------------------------
(* Machine words *)

LimbBase == 2^16
LimbMax == LimbBase - 1

U64(l0, l1, l2, l3) == <<l0, l1, l2, l3>>
Zero64 == U64(0, 0, 0, 0)
One64 == U64(1, 0, 0, 0)
MinusOne64 == U64(LimbMax, LimbMax, LimbMax, LimbMax)

\* a + b on uint64_t: limb-wise addition with carry, the carry out of the top
\* limb is dropped (wrap at 2^64).
Add64(a, b) ==
    LET s1 == a[1] + b[1]
        s2 == a[2] + b[2] + (s1 \div LimbBase)
        s3 == a[3] + b[3] + (s2 \div LimbBase)
        s4 == a[4] + b[4] + (s3 \div LimbBase)
    IN  <<s1 % LimbBase, s2 % LimbBase, s3 % LimbBase, s4 % LimbBase>>

\* -a on a 64-bit two's complement word: complement every limb, add one.
Neg64(a) ==
    Add64(<<LimbMax - a[1], LimbMax - a[2], LimbMax - a[3], LimbMax - a[4]>>, One64)

\* a & 0xFFFFFFFF on uint64_t.
Mask32(a) == <<a[1], a[2], 0, 0>>

\* static_cast<uint32_t>(a).
Cast32(a) == <<a[1], a[2]>>

\* a & 0x7f, as a small integer.
Mask7f(a) == a[1] % 128

\* The literal 0xffffffff, converted to intptr_t for the comparison.
Lit_ffffffff == U64(LimbMax, LimbMax, 0, 0)

Zero32 == <<0, 0>>


-----------------------------------------------------------------------------
(* State *)

VARIABLES
    cover,              \* the thread-local cover_ctx of every thread
    kcov,               \* kernel: threads with coverage enabled
    prior_hit,          \* history: a collect since the thread's last reset found hits
    baseline_fresh,     \* history: the thread reset since its last collect
    file_read,          \* history: the coverage file the thread's last collect met
    th,                 \* the thread_t records read and written by this file
    errno,              \* the thread-local errno of every thread
    sc,                 \* the execute_syscall that returned last: thread, c->name, res, result
    last_scheduled,     \* the most recently scheduled thread
    flag_coverage,
    flag_collect_cover,
    wr,                 \* write_call_output(th, finished): its argument and position
    outpipe,            \* what has been written to kOutPipeFd
    fail,               \* "none", or the message of the fail() that ended the process
    overlapped,         \* history: a report began while another was in progress
    last                \* the operation performed last, and the thread it was for

vars == <<cover, kcov, prior_hit, baseline_fresh, file_read, th, errno, sc,
          last_scheduled, flag_coverage, flag_collect_cover, wr, outpipe, fail,
          overlapped, last>>

coverVars == <<cover, kcov, prior_hit, baseline_fresh, file_read>>
callVars == <<errno, sc>>
reportVars == <<last_scheduled, wr, outpipe, overlapped>>
flagVars == <<flag_coverage, flag_collect_cover>>

\* fail() prints its message and exits the process.
Running == fail = "none"

-----------------------------------------------------------------------------
(* Coverage: cover_enable, cover_reset, cover_collect *)

kPcFixup == One64

ZX_HANDLE_INVALID == <<"invalid", 0>>

\* The handle zx_vmo_create stores for the calling thread's counter region.
VmoOf(t) == <<"vmo", t>>

\* `static __thread cover_ctx cover`: zero-initialized static storage.
cover_ctx_zero ==
    [base_covcount |-> [i \in Slots |-> 0],
     curr_covcount |-> [i \in Slots |-> 0],
     pc_table |-> [i \in Slots |-> Zero64],
     real_coverage_truncated |-> [i \in Slots |-> Zero32],
     total_pcs |-> 0,
     covcount_vmo |-> ZX_HANDLE_INVALID]

\* The coverage file as fopen sees it: one that cannot be opened, or a
\* sequence of 64-bit values.
NoFile == [open |-> FALSE, data |-> <<>>]
FileOf(data) == [open |-> TRUE, data |-> data]

Min(a, b) == IF a <= b THEN a ELSE b

\* An enable that reports a rejected zx_coverage_ctl and goes on to create
\* the counter region.
cover_enable_continues(t, ctl_ok, vmo_ok) ==
    /\ Running
    /\ last' = [op |-> "cover_enable", th |-> t]
    /\ kcov' = IF ctl_ok THEN kcov \cup {t} ELSE kcov
    /\ cover' = IF vmo_ok THEN [cover EXCEPT ![t].covcount_vmo = VmoOf(t)] ELSE cover
    /\ fail' = IF ~ctl_ok THEN "failed to enable coverage"
               ELSE IF ~vmo_ok THEN "failed to create covcount vmo"
               ELSE fail
    /\ UNCHANGED <<prior_hit, baseline_fresh, file_read, th, callVars, reportVars,
                   flagVars>>

\* An enable that does not check the answer of zx_coverage_ctl.
cover_enable_unchecked_ctl(t, ctl_ok, vmo_ok) ==
    /\ Running
    /\ last' = [op |-> "cover_enable", th |-> t]
    /\ kcov' = IF ctl_ok THEN kcov \cup {t} ELSE kcov
    /\ IF ~vmo_ok
         THEN /\ fail' = "failed to create covcount vmo"
              /\ UNCHANGED cover
         ELSE /\ cover' = [cover EXCEPT ![t].covcount_vmo = VmoOf(t)]
              /\ UNCHANGED fail
    /\ UNCHANGED <<prior_hit, baseline_fresh, file_read, th, callVars, reportVars,
                   flagVars>>

\* cover_enable: ctl_ok and vmo_ok are the kernel's answers to
\* zx_coverage_ctl(.., 1, ..) and zx_vmo_create.
cover_enable(t, ctl_ok, vmo_ok) ==
    /\ Running
    /\ last' = [op |-> "cover_enable", th |-> t]
    /\ IF ~ctl_ok
         THEN /\ fail' = "failed to enable coverage"
              /\ UNCHANGED <<cover, kcov>>
         ELSE /\ kcov' = kcov \cup {t}
              /\ IF ~vmo_ok
                   THEN /\ fail' = "failed to create covcount vmo"
                        /\ UNCHANGED cover
                   ELSE /\ cover' = [cover EXCEPT ![t].covcount_vmo = VmoOf(t)]
                        /\ UNCHANGED fail
    /\ UNCHANGED <<prior_hit, baseline_fresh, file_read, th, callVars, reportVars,
                   flagVars>>

\* A reader that takes a file of exactly elems values as well.
snapshot_sancov_accepts_full(dst, elems, file) ==
    IF ~file.open
      THEN [fail |-> "could not open coverage file", dst |-> dst, n |-> 0]
      ELSE LET n == Min(Len(file.data), elems)
               read == [i \in Slots |-> IF i <= n THEN file.data[i] ELSE dst[i]]
           IN  [fail |-> "none", dst |-> read, n |-> n]

\* snapshot_sancov(dst, elems, filename): file is the content of the file.
\* fread stores the n values it read into dst[0..n-1] and leaves the rest.
snapshot_sancov(dst, elems, file) ==
    IF ~file.open
      THEN [fail |-> "could not open coverage file", dst |-> dst, n |-> 0]
      ELSE LET n == Min(Len(file.data), elems)
               read == [i \in Slots |-> IF i <= n THEN file.data[i] ELSE dst[i]]
           IN  [fail |-> IF n = elems THEN "pc table is too small" ELSE "none",
                dst |-> read,
                n |-> n]

snapshot_pctable(dst, elems, file) == snapshot_sancov(dst, elems, file)

\* snapshot_covcount(dst, elems): k is the kernel's answer ("ok", or the call
\* it rejects), counters the content of the refreshed counter region.
snapshot_covcount(dst, elems, k, counters) ==
    IF k = "ctl" THEN [fail |-> "failed to fetch coverage", dst |-> dst]
    ELSE IF k = "read" THEN [fail |-> "failed to copy coverage", dst |-> dst]
    ELSE [fail |-> "none",
          dst |-> [i \in Slots |-> IF i <= elems THEN counters[i] ELSE dst[i]]]

\* A reset that also forgets how many locations the last collect read.
cover_reset_clears_total(t, k, counters) ==
    /\ Running
    /\ last' = [op |-> "cover_reset", th |-> t]
    /\ LET snap == snapshot_covcount(cover[t].base_covcount, MAX_COVSZ, k, counters)
       IN  /\ cover' = [cover EXCEPT ![t].base_covcount = snap.dst, ![t].total_pcs = 0]
           /\ fail' = snap.fail
           /\ prior_hit' = IF snap.fail = "none"
                             THEN [prior_hit EXCEPT ![t] = FALSE] ELSE prior_hit
           /\ baseline_fresh' = IF snap.fail = "none"
                                  THEN [baseline_fresh EXCEPT ![t] = TRUE]
                                  ELSE baseline_fresh
    /\ UNCHANGED <<kcov, file_read, th, callVars, reportVars, flagVars>>

\* A reset on a context that the threads share: the baseline it takes
\* replaces every thread's.
cover_reset_shared(t, k, counters) ==
    /\ Running
    /\ last' = [op |-> "cover_reset", th |-> t]
    /\ LET snap == snapshot_covcount(cover[t].base_covcount, MAX_COVSZ, k, counters)
       IN  /\ cover' = [u \in Threads |-> [cover[u] EXCEPT !.base_covcount = snap.dst]]
           /\ fail' = snap.fail
           /\ prior_hit' = IF snap.fail = "none"
                             THEN [prior_hit EXCEPT ![t] = FALSE] ELSE prior_hit
           /\ baseline_fresh' = IF snap.fail = "none"
                                  THEN [baseline_fresh EXCEPT ![t] = TRUE]
                                  ELSE baseline_fresh
    /\ UNCHANGED <<kcov, file_read, th, callVars, reportVars, flagVars>>

\* cover_reset
cover_reset(t, k, counters) ==
    /\ Running
    /\ last' = [op |-> "cover_reset", th |-> t]
    /\ LET snap == snapshot_covcount(cover[t].base_covcount, MAX_COVSZ, k, counters)
       IN  /\ cover' = [cover EXCEPT ![t].base_covcount = snap.dst]
           /\ fail' = snap.fail
           /\ prior_hit' = IF snap.fail = "none"
                             THEN [prior_hit EXCEPT ![t] = FALSE] ELSE prior_hit
           /\ baseline_fresh' = IF snap.fail = "none"
                                  THEN [baseline_fresh EXCEPT ![t] = TRUE]
                                  ELSE baseline_fresh
    /\ UNCHANGED <<kcov, file_read, th, callVars, reportVars, flagVars>>

\* Fixup without the offset: the table entry is stored as read.
Fixup_no_offset(v) == Cast32(Mask32(v))

\* The value stored for a hit at pc_table entry v.
Fixup(v) == Cast32(Mask32(Add64(v, kPcFixup)))

\* SlotHit counting only counters that grew.
SlotHit_increase_only(c, i) ==
    /\ c.pc_table[i] # Zero64
    /\ c.curr_covcount[i] > c.base_covcount[i]

\* SlotHit taking every non-zero counter for a hit, whatever the baseline.
SlotHit_nonzero_counter(c, i) ==
    /\ c.pc_table[i] # Zero64
    /\ c.curr_covcount[i] # 0

\* The two `continue` tests of the loop of cover_collect, negated.
SlotHit(c, i) ==
    /\ c.pc_table[i] # Zero64
    /\ c.base_covcount[i] # c.curr_covcount[i]

\* StoreHit putting the newest hit first.
StoreHit_front(hits, num_pcs, v) ==
    [i \in Slots |-> IF i = 1 THEN v
                     ELSE IF i <= num_pcs + 1 THEN hits[i - 1] ELSE hits[i]]

\* real_coverage_truncated[num_pcs] = v (the model's arrays start at 1).
StoreHit(hits, num_pcs, v) == [hits EXCEPT ![num_pcs + 1] = v]

\* The loop run over the whole table, whatever number of entries was read.
RECURSIVE collect_loop_whole_table(_, _, _, _, _)
collect_loop_whole_table(c, cov_size, i, num_pcs, hits) ==
    IF i > MAX_COVSZ THEN [num_pcs |-> num_pcs, hits |-> hits]
    ELSE IF SlotHit(c, i)
      THEN collect_loop_whole_table(c, cov_size, i + 1, num_pcs + 1,
                                    StoreHit(hits, num_pcs, Fixup(c.pc_table[i])))
      ELSE collect_loop_whole_table(c, cov_size, i + 1, num_pcs, hits)

\* The loop of cover_collect from slot i on; c is the context after the two
\* snapshots, num_pcs and hits the loop's running results.
RECURSIVE collect_loop(_, _, _, _, _)
collect_loop(c, cov_size, i, num_pcs, hits) ==
    IF i > cov_size THEN [num_pcs |-> num_pcs, hits |-> hits]
    ELSE IF SlotHit(c, i)
      THEN collect_loop(c, cov_size, i + 1, num_pcs + 1,
                        StoreHit(hits, num_pcs, Fixup(c.pc_table[i])))
      ELSE collect_loop(c, cov_size, i + 1, num_pcs, hits)

\* cover_collect(&th->cov) on thread t.
cover_collect(t, k, counters, file) ==
    /\ Running
    /\ last' = [op |-> "cover_collect", th |-> t]
    /\ LET snap == snapshot_covcount(cover[t].curr_covcount, MAX_COVSZ, k, counters)
           c1 == [cover[t] EXCEPT !.curr_covcount = snap.dst]
           tab == snapshot_pctable(c1.pc_table, MAX_COVSZ, file)
           c2 == [c1 EXCEPT !.pc_table = tab.dst]
           c3 == [c2 EXCEPT !.total_pcs = tab.n]
           res == collect_loop(c3, tab.n, 1, 0, c3.real_coverage_truncated)
       IN  IF snap.fail # "none"
             THEN /\ fail' = snap.fail
                  /\ UNCHANGED <<cover, th, prior_hit, baseline_fresh, file_read>>
           ELSE IF tab.fail # "none"
             THEN /\ fail' = tab.fail
                  /\ cover' = [cover EXCEPT ![t] = c2]
                  /\ file_read' = [file_read EXCEPT ![t] = file]
                  /\ UNCHANGED <<th, prior_hit, baseline_fresh>>
           ELSE /\ prior_hit' = [prior_hit EXCEPT ![t] = @ \/ res.num_pcs > 0]
                /\ baseline_fresh' = [baseline_fresh EXCEPT ![t] = FALSE]
                /\ file_read' = [file_read EXCEPT ![t] = file]
                /\ cover' = [cover EXCEPT ![t] =
                                [c3 EXCEPT !.real_coverage_truncated = res.hits]]
                /\ th' = [th EXCEPT ![t].cov =
                             [size |-> res.num_pcs, data |-> "real_coverage_truncated"]]
                /\ UNCHANGED fail
    /\ UNCHANGED <<kcov, callVars, reportVars, flagVars>>

-----------------------------------------------------------------------------
(* Return-code normalizer: execute_syscall *)

\* Call names are sequences of characters.
zx_prefix == <<"z", "x", "_">>
zx_debuglog_read ==
    <<"z", "x", "_", "d", "e", "b", "u", "g", "l", "o", "g", "_", "r", "e", "a", "d">>
zx_clock_get == <<"z", "x", "_", "c", "l", "o", "c", "k", "_", "g", "e", "t">>
zx_clock_get_monotonic ==
    zx_clock_get \o <<"_", "m", "o", "n", "o", "t", "o", "n", "i", "c">>
zx_deadline_after ==
    <<"z", "x", "_", "d", "e", "a", "d", "l", "i", "n", "e", "_", "a", "f", "t", "e", "r">>
zx_ticks_get == <<"z", "x", "_", "t", "i", "c", "k", "s", "_", "g", "e", "t">>

ZX_OK == Zero64

\* The character of the C string s at position i; the terminator past its end.
CharAt(s, i) == IF i <= Len(s) THEN s[i] ELSE "NUL"

\* strncmp(s1, s2, n) == 0: the strings agree on their first n characters, or
\* up to and including the terminator if that comes first.
strncmp_eq(s1, s2, n) ==
    \A i \in 1..n :
        (\A j \in 1..(i - 1) : CharAt(s1, j) # "NUL") => CharAt(s1, i) = CharAt(s2, i)

\* strcmp(s1, s2) == 0
strcmp_eq(s1, s2) ==
    \A i \in 1..(Min(Len(s1), Len(s2)) + 1) : CharAt(s1, i) = CharAt(s2, i)

\* ZxReturnsZero without the list of calls that return arbitrary integers.
ZxReturnsZero_status_only(name, res) == res = ZX_OK

\* The condition of line 125-130 that makes a zx_ call return 0.
ZxReturnsZero(name, res) ==
    \/ res = ZX_OK
    \/ strcmp_eq(name, zx_debuglog_read)
    \/ strcmp_eq(name, zx_clock_get)
    \/ strcmp_eq(name, zx_clock_get_monotonic)
    \/ strcmp_eq(name, zx_deadline_after)
    \/ strcmp_eq(name, zx_ticks_get)

\* ZxErrno without the negation.
ZxErrno_no_negation(res) == Mask7f(res)

\* errno = (-res) & 0x7f
ZxErrno(res) == Mask7f(Neg64(res))

\* SignCorrect comparing the low 32 bits only.
SignCorrect_low_bits(res) == IF Mask32(res) = Lit_ffffffff THEN MinusOne64 ELSE res

\* if (res == 0xffffffff) res = (intptr_t)-1;  return res;
SignCorrect(res) == IF res = Lit_ffffffff THEN MinusOne64 ELSE res

\* normalize storing an error code whenever it returns -1, also for a
\* conventional call.
normalize_errno_on_minus_one(name, res, e) ==
    IF strncmp_eq(name, zx_prefix, 3)
      THEN IF ZxReturnsZero(name, res)
             THEN [ret |-> Zero64, errno |-> e]
             ELSE [ret |-> MinusOne64, errno |-> ZxErrno(res)]
      ELSE [ret |-> SignCorrect(res),
            errno |-> IF SignCorrect(res) = MinusOne64 THEN ZxErrno(res) ELSE e]

\* The body of execute_syscall after c->call returned res, with errno = e
\* before: the value returned and errno after.
normalize(name, res, e) ==
    IF strncmp_eq(name, zx_prefix, 3)
      THEN IF ZxReturnsZero(name, res)
             THEN [ret |-> Zero64, errno |-> e]
             ELSE [ret |-> MinusOne64, errno |-> ZxErrno(res)]
      ELSE [ret |-> SignCorrect(res), errno |-> e]

\* execute_syscall(c, a) on thread t: name is c->name, res what c->call
\* returned.
execute_syscall(t, name, res) ==
    /\ Running
    /\ last' = [op |-> "execute_syscall", th |-> t]
    /\ LET n == normalize(name, res, errno[t])
       IN  /\ errno' = [errno EXCEPT ![t] = n.errno]
           /\ sc' = [th |-> t, name |-> name, res |-> res, ret |-> n.ret]
    /\ UNCHANGED <<coverVars, th, reportVars, flagVars, fail>>

\* The caller of execute_syscall stores the call's outcome in the thread's
\* execution record: result, error code, fault-injection flag.
record_result(t, fault_injected, call_index, call_num) ==
    /\ Running
    /\ last.op = "execute_syscall" /\ sc.th = t
    /\ last' = [op |-> "record_result", th |-> t]
    /\ th' = [th EXCEPT ![t].res = sc.ret,
                        ![t].reserrno = errno[t],
                        ![t].fault_injected = fault_injected,
                        ![t].call_index = call_index,
                        ![t].call_num = call_num]
    /\ UNCHANGED <<coverVars, callVars, reportVars, flagVars, fail>>

-----------------------------------------------------------------------------
(* Result reporter: write_call_output *)

\* Items on the output pipe: a complete call_reply, a complete table of 32-bit
\* values, or the incomplete data of a write that came back short.
ReplyItem(r) == [kind |-> "reply", reply |-> r]
TableItem(words) == [kind |-> "table", words |-> words]
ShortItem == [kind |-> "short"]

IsReplyItem(item) == item.kind = "reply"

\* ReplyErrno reporting the recorded code of every finished call.
ReplyErrno_recorded_always(r, finished) == IF finished THEN r.reserrno ELSE 999

\* uint32 reserrno, lines 144 and 148; r is the record *th.
ReplyErrno(r, finished) ==
    IF finished
      THEN IF r.res # MinusOne64 THEN 0 ELSE r.reserrno
      ELSE 999

\* ReplyFlags reporting the fault-injection flag of unfinished calls too.
ReplyFlags_fault_unfinished(r, blocked, finished) ==
    (({"call_flag_executed"} \cup (IF blocked THEN {"call_flag_blocked"} ELSE {}))
     \cup (IF finished THEN {"call_flag_finished"} ELSE {}))
    \cup (IF r.fault_injected THEN {"call_flag_fault_injected"} ELSE {})

\* uint32 call_flags, lines 146 and 149-150: the bit set, as the set of the
\* flags' names.
ReplyFlags(r, blocked, finished) ==
    ({"call_flag_executed"} \cup (IF blocked THEN {"call_flag_blocked"} ELSE {}))
    \cup (IF finished
            THEN {"call_flag_finished"} \cup
                 (IF r.fault_injected THEN {"call_flag_fault_injected"} ELSE {})
            ELSE {})

\* A reply whose cover_size follows the full-coverage flag alone.
BuildReply_cover_size_unguarded(t, finished) ==
    LET blocked == t # last_scheduled
    IN  [magic |-> "kOutMagic", done |-> 0, status |-> 0,
         call_index |-> th[t].call_index, call_num |-> th[t].call_num,
         reserrno |-> ReplyErrno(th[t], finished),
         flags |-> ReplyFlags(th[t], blocked, finished),
         signal_size |-> IF flag_coverage THEN th[t].cov.size ELSE 0,
         cover_size |-> IF flag_collect_cover THEN th[t].cov.size ELSE 0,
         comps_size |-> 0]

\* The call_reply built by lines 152-168.
BuildReply(t, finished) ==
    LET blocked == t # last_scheduled
    IN  [magic |-> "kOutMagic",
         done |-> 0,
         status |-> 0,
         call_index |-> th[t].call_index,
         call_num |-> th[t].call_num,
         reserrno |-> ReplyErrno(th[t], finished),
         flags |-> ReplyFlags(th[t], blocked, finished),
         signal_size |-> IF flag_coverage THEN th[t].cov.size ELSE 0,
         cover_size |-> IF flag_coverage /\ flag_collect_cover
                          THEN th[t].cov.size ELSE 0,
         comps_size |-> 0]

\* The whole hit table, whatever th->cov.size says.
CovData_whole_table(t) == cover[t].real_coverage_truncated

\* The th->cov.size values at th->cov.data.
CovData(t) ==
    [i \in 1..th[t].cov.size |-> cover[t].real_coverage_truncated[i]]

\* write_call_output(th, finished), lines 142-170: build the reply and write it.
write_header(t, finished, w) ==
    /\ Running
    /\ wr[t].pc = "idle"
    /\ last' = [op |-> "write_header", th |-> t]
    /\ LET reply == BuildReply(t, finished)
       IN  /\ outpipe' = Append(outpipe, IF w = "full" THEN ReplyItem(reply) ELSE ShortItem)
           /\ fail' = IF w = "full" THEN "none" ELSE "control pipe call write failed"
           /\ wr' = [wr EXCEPT ![t] =
                        [finished |-> finished,
                         pc |-> IF w = "full" /\ flag_coverage THEN "signal" ELSE "idle"]]
    /\ overlapped' = (overlapped \/ \E u \in Threads \ {t} : wr[u].pc # "idle")
    /\ UNCHANGED <<coverVars, th, callVars, last_scheduled, flagVars>>

\* lines 172-182: the signal table.
write_signal(t, w) ==
    /\ Running
    /\ wr[t].pc = "signal"
    /\ last' = [op |-> "write_signal", th |-> t]
    /\ outpipe' = Append(outpipe, IF w = "full" THEN TableItem(CovData(t)) ELSE ShortItem)
    /\ fail' = IF w = "full" THEN "none" ELSE "signals table write failed"
    /\ wr' = [wr EXCEPT ![t].pc =
                 IF w = "full" /\ flag_collect_cover THEN "cover" ELSE "idle"]
    /\ UNCHANGED <<coverVars, th, callVars, last_scheduled, overlapped, flagVars>>

\* lines 183-187: the coverage table.
write_cover(t, w) ==
    /\ Running
    /\ wr[t].pc = "cover"
    /\ last' = [op |-> "write_cover", th |-> t]
    /\ outpipe' = Append(outpipe, IF w = "full" THEN TableItem(CovData(t)) ELSE ShortItem)
    /\ fail' = IF w = "full" THEN "none" ELSE "coverage table write failed"
    /\ wr' = [wr EXCEPT ![t].pc = "idle"]
    /\ UNCHANGED <<coverVars, th, callVars, last_scheduled, overlapped, flagVars>>

\* The scheduler records the thread it handed a call to last.
schedule_call(t) ==
    /\ Running
    /\ last' = [op |-> "schedule_call", th |-> t]
    /\ last_scheduled' = t
    /\ UNCHANGED <<coverVars, th, callVars, wr, outpipe, overlapped, flagVars, fail>>

-----------------------------------------------------------------------------
(* Initial state *)

thread_zero ==
    [res |-> Zero64, reserrno |-> 0, fault_injected |-> FALSE,
     call_index |-> 0, call_num |-> 0,
     cov |-> [size |-> 0, data |-> "NULL"]]

InitWith(coverage, collect_cover) ==
    /\ cover = [t \in Threads |-> cover_ctx_zero]
    /\ kcov = {}
    /\ prior_hit = [t \in Threads |-> FALSE]
    /\ baseline_fresh = [t \in Threads |-> FALSE]
    /\ file_read = [t \in Threads |-> NoFile]
    /\ overlapped = FALSE
    /\ th = [t \in Threads |-> thread_zero]
    /\ errno = [t \in Threads |-> 0]
    /\ sc = [th |-> 0, name |-> <<>>, res |-> Zero64, ret |-> Zero64]
    /\ last_scheduled = 0          \* no thread
    /\ flag_coverage = coverage
    /\ flag_collect_cover = collect_cover
    /\ wr = [t \in Threads |-> [finished |-> FALSE, pc |-> "idle"]]
    /\ outpipe = <<>>
    /\ fail = "none"
    /\ last = [op |-> "init", th |-> 0]

-----------------------------------------------------------------------------
(* Inputs *)

\* Counter values the kernel's counter region may hold.  The last slot never
\* holds a location (a table that reaches it is rejected), so its counter is
\* kept at one value.
CountValues == {5, 6}
Counters == {c \in [Slots -> CountValues] : c[MAX_COVSZ] = 5}

KernelAnswers == {"ok", "ctl", "read"}

\* Program-counter values of the coverage file: no location, 0xFFFFFFFF,
\* 0x1_0000_0000 and 2^64 - 1.
PcValues == {Zero64, Lit_ffffffff, U64(0, 0, 1, 0)}

\* Contents of the coverage file; one of MAX_COVSZ values stands for every
\* file that fills the buffer.
Files ==
    {NoFile} \cup {FileOf(d) : d \in UNION {[1..n -> PcValues] : n \in 0..MAX_COVSZ}}

-----------------------------------------------------------------------------
(* Specifications *)

\* The worker has enabled coverage: cover_enable stored its region's handle.
CoverEnabled(t) == cover[t].covcount_vmo # ZX_HANDLE_INVALID

\* One worker thread's coverage operations against every kernel answer,
\* counter snapshot and coverage file.  The worker enables coverage once, at
\* its start, and resets and collects after that.
CoverThreads == {1}

Init == InitWith(TRUE, TRUE)

NoCounters == [i \in Slots |-> 0]

NextCover ==
    \E t \in CoverThreads :
        \/ /\ ~CoverEnabled(t)
           /\ \E ctl_ok \in BOOLEAN, vmo_ok \in BOOLEAN : cover_enable(t, ctl_ok, vmo_ok)
        \/ /\ CoverEnabled(t)
           /\ \/ \E counters \in Counters : cover_reset(t, "ok", counters)
              \/ \E k \in KernelAnswers \ {"ok"} : cover_reset(t, k, NoCounters)
        \/ /\ CoverEnabled(t)
           /\ \/ \E counters \in Counters, file \in Files :
                     cover_collect(t, "ok", counters, file)
              \/ \E k \in KernelAnswers \ {"ok"} : cover_collect(t, k, NoCounters, NoFile)

Spec == Init /\ [][NextCover]_vars

\* Boundary values of the fixup: low limb 0, 1 or all ones, second limb 0 or
\* all ones, and above bit 32 nothing, the single bit 32, or all ones.  Among
\* them 0xFFFFFFFF, 0x1_0000_0000 and 2^64 - 1.
PcValuesWide ==
    {U64(a, b, hi[1], hi[2]) :
        a \in {0, 1, LimbMax}, b \in {0, LimbMax},
        hi \in {<<0, 0>>, <<1, 0>>, <<LimbMax, LimbMax>>}}

\* Counter snapshots that differ in the first slot only, and coverage files
\* of at most one value, drawn from the boundary values.
CountersOne == {c \in Counters : \A i \in Slots : i > 1 => c[i] = 5}
FilesOne == {FileOf(d) : d \in UNION {[1..n -> PcValuesWide] : n \in 0..1}}

NextFixup ==
    \E t \in CoverThreads :
        \/ /\ ~CoverEnabled(t)
           /\ cover_enable(t, TRUE, TRUE)
        \/ /\ CoverEnabled(t)
           /\ \E counters \in CountersOne : cover_reset(t, "ok", counters)
        \/ /\ CoverEnabled(t)
           /\ \E counters \in CountersOne, file \in FilesOne :
                  cover_collect(t, "ok", counters, file)

SpecFixup == Init /\ [][NextFixup]_vars

\* Call names: the five calls execute_syscall names, other kernel-native
\* calls (one an allow-listed name with a suffix, one the bare prefix) and
\* conventional calls (one a proper prefix of "zx_").
CallNames ==
    {zx_debuglog_read, zx_clock_get, zx_clock_get_monotonic, zx_deadline_after,
     zx_ticks_get,
     <<"z", "x", "_", "h", "a", "n", "d", "l", "e", "_", "c", "l", "o", "s", "e">>,
     zx_clock_get \o <<"_", "n", "e", "w">>,
     zx_prefix,
     <<"z", "x">>,
     <<"s", "y", "z", "_", "m", "m", "a", "p">>,
     <<"o", "p", "e", "n">>}

\* Raw results of c->call: 0, 1, 5, 128, 0xFFFFFFFF, 0x1_FFFF_FFFF,
\* 0xFFFFFFFF_0000_0000, -1, -5, -128, -133 and the most negative value.
RawResults ==
    {Zero64, One64, U64(5, 0, 0, 0), U64(128, 0, 0, 0),
     Lit_ffffffff, U64(LimbMax, LimbMax, 1, 0), U64(0, 0, LimbMax, LimbMax),
     MinusOne64, Neg64(U64(5, 0, 0, 0)), Neg64(U64(128, 0, 0, 0)),
     Neg64(U64(133, 0, 0, 0)), U64(0, 0, 0, LimbBase \div 2)}

\* Calls of every name returning every raw result, on either thread.
NextCall ==
    \E t \in Threads, name \in CallNames, res \in RawResults :
        execute_syscall(t, name, res)

SpecCall == Init /\ [][NextCall]_vars

\* Reports the model lets the process start; every started report may finish.
MaxReports == 2

ReportsStarted == Len(SelectSeq(outpipe, IsReplyItem))

\* The calls and raw results of the reporting runs: a kernel-native and a
\* conventional call returning 0, -5 or 0xFFFFFFFF.
ReportNames ==
    {<<"z", "x", "_", "h", "a", "n", "d", "l", "e", "_", "c", "l", "o", "s", "e">>,
     <<"o", "p", "e", "n">>}
ReportResults == {Zero64, Neg64(U64(5, 0, 0, 0)), Lit_ffffffff}

\* The number of a call in the call table.
CallNum(name) == IF name = <<"o", "p", "e", "n">> THEN 1 ELSE 2

ReportThreads == {1}

\* No report is in progress.
NoReportInProgress == \A t \in Threads : wr[t].pc = "idle"

\* Rounds of one worker: the scheduler hands a call to the worker or to the
\* other thread, the worker executes a call and has its outcome recorded, and
\* the worker's record is reported, finished or not, before or after the call,
\* over a pipe that takes every write or cuts one short.
NextReport ==
    \/ /\ NoReportInProgress
       /\ last.op \notin {"schedule_call", "execute_syscall"}
       /\ ReportsStarted < MaxReports
       /\ \E t \in Threads : schedule_call(t)
    \/ /\ last.op = "schedule_call"
       /\ \E t \in ReportThreads, name \in ReportNames, res \in ReportResults :
              execute_syscall(t, name, res)
    \/ \E t \in ReportThreads, fault_injected \in BOOLEAN :
           record_result(t, fault_injected, 0, CallNum(sc.name))
    \/ /\ last.op \in {"schedule_call", "record_result"}
       /\ ReportsStarted < MaxReports
       /\ \E t \in ReportThreads, finished \in BOOLEAN, w \in {"full", "short"} :
              write_header(t, finished, w)
    \/ \E t \in ReportThreads, w \in {"full", "short"} : write_signal(t, w)
    \/ \E t \in ReportThreads, w \in {"full", "short"} : write_cover(t, w)

InitReport == \E coverage, collect_cover \in BOOLEAN : InitWith(coverage, collect_cover)

SpecReport == InitReport /\ [][NextReport]_vars

\* Two locations: 0x1_0000_0000, reported as 1, and 0xFFFFFFFF, reported as 0.
PcA == U64(0, 0, 1, 0)
PcB == Lit_ffffffff

\* A counter snapshot with a in the first slot and b in the second.
Snap(a, b) == [i \in Slots |-> IF i = 1 THEN a ELSE IF i = 2 THEN b ELSE 0]

\* The snapshots and coverage files of the worker loop: the second counter at
\* 5 or 6, the first at 0 or 1; no file, a table of one or two locations, and
\* a table of MAX_COVSZ locations.
WireCounters == {Snap(0, 5), Snap(0, 6), Snap(1, 6)}
WireFiles ==
    {NoFile, FileOf(<<PcB>>), FileOf(<<PcA, PcB>>), FileOf([i \in Slots |-> PcA])}

\* -128, a raw result whose negation has its low seven bits clear.
Minus128 == Neg64(U64(128, 0, 0, 0))
WireResults == {Neg64(U64(5, 0, 0, 0)), Minus128}

WireThreads == {1}

\* The loop of one worker: enable coverage once, then for each call reset the
\* baseline, execute the call, have its outcome recorded, collect and report,
\* against every kernel answer, and over a pipe that takes every write or
\* cuts one short.
NextWire ==
    \/ \E t \in WireThreads, ctl_ok \in BOOLEAN, vmo_ok \in BOOLEAN :
           /\ ~CoverEnabled(t)
           /\ cover_enable(t, ctl_ok, vmo_ok)
    \/ \E t \in WireThreads :
           /\ CoverEnabled(t)
           /\ last.op \in {"cover_enable", "write_header", "write_signal", "write_cover"}
           /\ NoReportInProgress
           /\ ReportsStarted < MaxReports
           /\ \/ \E counters \in WireCounters : cover_reset(t, "ok", counters)
              \/ \E k \in KernelAnswers \ {"ok"} : cover_reset(t, k, NoCounters)
    \/ \E t \in WireThreads, name \in ReportNames, res \in WireResults :
           /\ last.op = "cover_reset"
           /\ execute_syscall(t, name, res)
    \/ \E t \in WireThreads : record_result(t, FALSE, 0, CallNum(sc.name))
    \/ \E t \in WireThreads :
           /\ last.op = "record_result"
           /\ \/ \E counters \in WireCounters, file \in WireFiles :
                     cover_collect(t, "ok", counters, file)
              \/ \E k \in KernelAnswers \ {"ok"} : cover_collect(t, k, NoCounters, NoFile)
    \/ \E t \in WireThreads, finished \in BOOLEAN, w \in {"full", "short"} :
           /\ last.op = "cover_collect"
           /\ write_header(t, finished, w)
    \/ \E t \in WireThreads, w \in {"full", "short"} : write_signal(t, w)
    \/ \E t \in WireThreads, w \in {"full", "short"} : write_cover(t, w)

SpecWire == InitReport /\ [][NextWire]_vars

\* Snapshots and coverage files of two workers running side by side.
PairCounters == {Snap(0, 5), Snap(0, 6)}
PairFiles == {FileOf(<<PcB>>), FileOf(<<PcA, PcB>>)}

\* Two workers interleaved at will, each in its own lifecycle: enable once,
\* then reset before and collect after each call.
NextThreads ==
    \/ \E t \in Threads, ctl_ok \in BOOLEAN, vmo_ok \in BOOLEAN :
           /\ ~CoverEnabled(t)
           /\ cover_enable(t, ctl_ok, vmo_ok)
    \/ \E t \in Threads :
           /\ CoverEnabled(t)
           /\ ~baseline_fresh[t]
           /\ \/ \E counters \in PairCounters : cover_reset(t, "ok", counters)
              \/ \E k \in KernelAnswers \ {"ok"} : cover_reset(t, k, NoCounters)
    \/ \E t \in Threads :
           /\ baseline_fresh[t]
           /\ \/ \E counters \in PairCounters, file \in PairFiles :
                     cover_collect(t, "ok", counters, file)
              \/ \E k \in KernelAnswers \ {"ok"} : cover_collect(t, k, NoCounters, NoFile)
              \/ cover_collect(t, "ok", NoCounters, NoFile)

SpecThreads == Init /\ [][NextThreads]_vars

\* Two workers, each reset, collected and reported in turn, with nothing to
\* order the writes of one worker's report against the other's: every
\* interleaving of the up to three writes of two reports.  Each collect
\* finds one hit or two.
PipeFiles == {FileOf(<<PcA, PcB>>)}
PipeBaselines == {Snap(0, 5)}
PipeCounters == {Snap(0, 6), Snap(1, 6)}

NextPipe ==
    \/ \E t \in Threads :
           /\ ~CoverEnabled(t)
           /\ cover_enable(t, TRUE, TRUE)
    \/ \E t \in Threads, counters \in PipeBaselines :
           /\ CoverEnabled(t)
           /\ ~baseline_fresh[t]
           /\ wr[t].pc = "idle"
           /\ ReportsStarted < MaxReports
           /\ cover_reset(t, "ok", counters)
    \/ \E t \in Threads, counters \in PipeCounters, file \in PipeFiles :
           /\ baseline_fresh[t]
           /\ cover_collect(t, "ok", counters, file)
    \/ \E t \in Threads, w \in {"full", "short"} :
           /\ CoverEnabled(t)
           /\ ~baseline_fresh[t]
           /\ ReportsStarted < MaxReports
           /\ write_header(t, TRUE, w)
    \/ \E t \in Threads, w \in {"full", "short"} : write_signal(t, w)
    \/ \E t \in Threads, w \in {"full", "short"} : write_cover(t, w)

SpecPipe == InitReport /\ [][NextPipe]_vars

-----------------------------------------------------------------------------
(* Properties of cover_collect *)

\* cover_collect has just returned on thread t.
Collected(t) == last.op = "cover_collect" /\ last.th = t /\ Running

\* The result handed to the caller: the th->cov.size values at th->cov.data.
HitCount(t) == th[t].cov.size
Hits(t) == cover[t].real_coverage_truncated

\* The slots the diff is to report.
ChangedSlots(t) ==
    {i \in Slots : /\ i <= cover[t].total_pcs
                   /\ cover[t].pc_table[i] # Zero64
                   /\ cover[t].base_covcount[i] # cover[t].curr_covcount[i]}

\* (v + 1) mod 2^32 of a 64-bit value v, as a 32-bit word: the low limb plus
\* one, its carry into the second limb, nothing above.
PlusOneMod32(v) ==
    LET low == v[1] + 1
    IN  <<low % LimbBase, (v[2] + (low \div LimbBase)) % LimbBase>>

\* C1: after every collect, the result has one entry per slot below
\* total_pcs whose table entry is non-zero and whose counter differs from the
\* baseline (higher or lower), each entry the fixed-up location of its slot,
\* and no entry for any other slot.
C1_DiffCorrect ==
    \A t \in Threads :
        Collected(t) =>
            /\ HitCount(t) = Cardinality(ChangedSlots(t))
            /\ \E f \in [1..HitCount(t) -> Slots] :
                   /\ \A p, q \in 1..HitCount(t) : p # q => f[p] # f[q]
                   /\ {f[p] : p \in 1..HitCount(t)} = ChangedSlots(t)
                   /\ \A p \in 1..HitCount(t) :
                          Hits(t)[p] = Fixup(cover[t].pc_table[f[p]])

\* A collect that reported exactly the one slot below total_pcs, whose counter
\* went down, and not the slot beyond total_pcs that still holds a location of
\* an earlier, longer table and whose counter differs too.
C1_Witness ==
    \E t \in Threads :
        /\ Collected(t)
        /\ cover[t].total_pcs = 1
        /\ HitCount(t) = 1
        /\ cover[t].base_covcount[1] > cover[t].curr_covcount[1]
        /\ cover[t].pc_table[2] # Zero64
        /\ cover[t].base_covcount[2] # cover[t].curr_covcount[2]

\* C2: a collect that finds every counter below total_pcs equal to the
\* baseline returns size 0.
C2_BackToBaselineEmpty ==
    \A t \in Threads :
        (/\ Collected(t)
         /\ \A i \in 1..cover[t].total_pcs :
                cover[t].curr_covcount[i] = cover[t].base_covcount[i])
        => HitCount(t) = 0

\* An empty collect over a table with locations, the counters back at the
\* baseline, after an earlier collect since the same reset had found hits.
C2_Witness ==
    \E t \in Threads :
        /\ Collected(t)
        /\ prior_hit[t]
        /\ HitCount(t) = 0
        /\ cover[t].total_pcs = 2
        /\ \A i \in 1..2 : /\ cover[t].pc_table[i] # Zero64
                           /\ cover[t].curr_covcount[i] = cover[t].base_covcount[i]

\* The slot of the p-th hit: the p-th smallest of the changed slots.
NthChangedSlot(t, p) ==
    CHOOSE i \in ChangedSlots(t) :
        Cardinality({j \in ChangedSlots(t) : j <= i}) = p

\* C3: every value collect appends for a location v is (v + 1) mod 2^32;
\* 0xFFFFFFFF and 2^64 - 1 are reported as 0, 0x1_0000_0000 as 1.
C3_FixupTruncation ==
    \A t \in Threads :
        Collected(t) =>
            \A p \in 1..HitCount(t) :
                LET v == cover[t].pc_table[NthChangedSlot(t, p)]
                IN  /\ Hits(t)[p] = PlusOneMod32(v)
                    /\ v = Lit_ffffffff => Hits(t)[p] = <<0, 0>>
                    /\ v = U64(0, 0, 1, 0) => Hits(t)[p] = <<1, 0>>
                    /\ v = MinusOne64 => Hits(t)[p] = <<0, 0>>

\* The location 2^64 - 1, where the addition wraps, reported as 0.
C3_Witness ==
    \E t \in Threads :
        /\ Collected(t)
        /\ HitCount(t) = 1
        /\ cover[t].pc_table[1] = MinusOne64
        /\ Hits(t)[1] = <<0, 0>>

\* C4: the hits are the changed slots' locations in increasing slot order,
\* one per changed slot: neither sorted by value nor deduplicated.
C4_OrderPreserved ==
    \A t \in Threads :
        Collected(t) =>
            \E f \in [1..HitCount(t) -> Slots] :
                /\ \A p, q \in 1..HitCount(t) : p < q => f[p] < f[q]
                /\ {f[p] : p \in 1..HitCount(t)} = ChangedSlots(t)
                /\ \A p \in 1..HitCount(t) :
                       Hits(t)[p] = Fixup(cover[t].pc_table[f[p]])

\* Two hits whose values fall from the first to the second, as their slots'
\* locations do: 0x1_0000_0000 reported as 1, then 0xFFFFFFFF reported as 0.
C4_Witness ==
    \E t \in Threads :
        /\ Collected(t)
        /\ HitCount(t) = 2
        /\ cover[t].pc_table[1] = U64(0, 0, 1, 0)
        /\ cover[t].pc_table[2] = Lit_ffffffff
        /\ Hits(t)[1] = <<1, 0>>
        /\ Hits(t)[2] = <<0, 0>>

-----------------------------------------------------------------------------
(* Properties of execute_syscall *)

\* execute_syscall has just returned.
Called == last.op = "execute_syscall"

\* The name starts with the kernel-native prefix "zx_".
KernelNative(name) == Len(name) >= 3 /\ SubSeq(name, 1, 3) = <<"z", "x", "_">>

\* The calls whose raw result is not a status.
AllowListed(name) ==
    name \in {zx_debuglog_read, zx_clock_get, zx_clock_get_monotonic,
              zx_deadline_after, zx_ticks_get}

\* (-r) & 0x7F from the low seven bits of r: 128 minus them, 0 in place of 128.
NegLow7(r) == (128 - (r[1] % 128)) % 128

MinusFive64 == U64(LimbMax - 4, LimbMax, LimbMax, LimbMax)

\* C5: a kernel-native call whose raw result is ZX_OK returns 0, and an
\* allow-listed call returns 0 for every raw result.
C5_SuccessMapping ==
    Called =>
        /\ (KernelNative(sc.name) /\ sc.res = Zero64) => sc.ret = Zero64
        /\ AllowListed(sc.name) => sc.ret = Zero64

\* An allow-listed call whose raw result -5 was returned as 0.
C5_Witness ==
    /\ Called
    /\ sc.name = zx_clock_get_monotonic
    /\ sc.res = MinusFive64
    /\ sc.ret = Zero64

\* C6: a kernel-native call that is not allow-listed and returns a non-zero
\* raw result r returns -1 and stores (-r) & 0x7F as its thread's errno; for
\* r = -5 the stored code is 5.
C6_ErrorMapping ==
    (/\ Called
     /\ KernelNative(sc.name)
     /\ ~AllowListed(sc.name)
     /\ sc.res # Zero64)
    => /\ sc.ret = MinusOne64
       /\ errno[sc.th] = NegLow7(sc.res)
       /\ sc.res = MinusFive64 => errno[sc.th] = 5

\* A kernel-native call that returned raw -5: result -1, stored code 5.
C6_Witness ==
    /\ Called
    /\ KernelNative(sc.name)
    /\ ~AllowListed(sc.name)
    /\ sc.res = MinusFive64
    /\ sc.ret = MinusOne64
    /\ errno[sc.th] = 5

\* C7: a conventional call returns the full-width -1 for the raw result
\* 0xFFFFFFFF and its raw result unchanged for every other one.
C7_SignCorrection ==
    (Called /\ ~KernelNative(sc.name)) =>
        /\ sc.res = U64(LimbMax, LimbMax, 0, 0) => sc.ret = MinusOne64
        /\ sc.res # U64(LimbMax, LimbMax, 0, 0) => sc.ret = sc.res

\* A conventional call whose raw result 0x1_FFFF_FFFF, all ones in its low 32
\* bits, was returned unchanged.
C7_Witness ==
    /\ Called
    /\ ~KernelNative(sc.name)
    /\ sc.res = U64(LimbMax, LimbMax, 1, 0)
    /\ sc.ret = sc.res

\* C8: execute_syscall changes nothing but the calling thread's errno, and
\* that only when a kernel-native call fails: errno stays as it was for a
\* conventional call and for a kernel-native call that returns 0; the coverage
\* state, the thread records, the report state and every other thread's errno
\* stay as they were on every path.
C8_NormalizerFrame ==
    [][last'.op = "execute_syscall" =>
          /\ UNCHANGED <<coverVars, th, reportVars, flagVars, fail>>
          /\ \A u \in Threads : u # sc'.th => errno'[u] = errno[u]
          /\ (~KernelNative(sc'.name) \/ sc'.ret = Zero64) => errno' = errno]_vars

\* A conventional call corrected to -1 on a thread whose errno holds the code
\* of an earlier failed kernel-native call.
C8_Witness ==
    /\ Called
    /\ ~KernelNative(sc.name)
    /\ sc.res = Lit_ffffffff
    /\ sc.ret = MinusOne64
    /\ errno[sc.th] = 5

-----------------------------------------------------------------------------
(* Properties of write_call_output *)

\* write_call_output has just written the reply of thread t's record.
Reported(t) == last.op = "write_header" /\ last.th = t /\ Running

\* The reply written last.
LastReply == outpipe[Len(outpipe)].reply

\* C9: a report with finished = false carries error code 999 whatever the
\* record holds; a report with finished = true carries 0 when the record's
\* result is not -1 and the record's error code when it is.
C9_ReplyErrno ==
    \A t \in Threads :
        Reported(t) =>
            /\ ~wr[t].finished => LastReply.reserrno = 999
            /\ (wr[t].finished /\ th[t].res # MinusOne64) => LastReply.reserrno = 0
            /\ (wr[t].finished /\ th[t].res = MinusOne64) =>
                   LastReply.reserrno = th[t].reserrno

\* A failed call reported twice: unfinished with code 999, then finished with
\* its recorded code 5.
C9_Witness ==
    \E t \in Threads :
        /\ Reported(t)
        /\ Len(outpipe) >= 2
        /\ wr[t].finished
        /\ th[t].res = MinusOne64
        /\ LastReply.reserrno = 5
        /\ \E i \in 1..(Len(outpipe) - 1) :
               /\ outpipe[i].kind = "reply"
               /\ outpipe[i].reply.reserrno = 999

\* C10: every reply has the executed flag; the blocked flag iff the thread
\* reported is not the one scheduled last; the finished flag iff finished is
\* true; the fault-injected flag iff finished is true and the record's
\* fault-injection flag is set.
C10_ReplyFlags ==
    \A t \in Threads :
        Reported(t) =>
            /\ "call_flag_executed" \in LastReply.flags
            /\ "call_flag_blocked" \in LastReply.flags <=> t # last_scheduled
            /\ "call_flag_finished" \in LastReply.flags <=> wr[t].finished
            /\ "call_flag_fault_injected" \in LastReply.flags
                   <=> (wr[t].finished /\ th[t].fault_injected)

\* An unfinished report of a record whose fault-injection flag is set, on a
\* thread that is not the one scheduled last: executed and blocked, no more.
C10_Witness ==
    \E t \in Threads :
        /\ Reported(t)
        /\ ~wr[t].finished
        /\ th[t].fault_injected
        /\ last_scheduled # t
        /\ LastReply.flags = {"call_flag_executed", "call_flag_blocked"}

-----------------------------------------------------------------------------
(* Properties of the worker loop: collect, then report *)

\* C11: the reply's signal_size is the hit count of the thread's latest
\* collect when flag_coverage is set and 0 otherwise; its cover_size is that
\* count when flag_coverage and flag_collect_cover are both set and 0
\* otherwise, also when flag_collect_cover is set and flag_coverage is not;
\* its comps_size is 0.
C11_SizeFields ==
    \A t \in Threads :
        Reported(t) =>
            LET n == Cardinality(ChangedSlots(t))
            IN  /\ LastReply.signal_size = IF flag_coverage THEN n ELSE 0
                /\ LastReply.cover_size =
                       IF flag_coverage /\ flag_collect_cover THEN n ELSE 0
                /\ LastReply.comps_size = 0

\* A report of a collect with hits under flag_collect_cover without
\* flag_coverage.
C11_Witness ==
    /\ Reported(1)
    /\ ~flag_coverage /\ flag_collect_cover
    /\ Cardinality(ChangedSlots(1)) >= 1
    /\ LastReply.cover_size = 0

\* The report of thread t has just written its last part in full.
ReportDone(t) ==
    /\ Running
    /\ last.th = t
    /\ last.op \in {"write_header", "write_signal", "write_cover"}
    /\ wr[t].pc = "idle"

\* The place of the last reply header on the pipe, and what follows it.
LastHeaderAt ==
    CHOOSE k \in 1..Len(outpipe) :
        /\ IsReplyItem(outpipe[k])
        /\ \A j \in (k + 1)..Len(outpipe) : ~IsReplyItem(outpipe[j])
Payloads == SubSeq(outpipe, LastHeaderAt + 1, Len(outpipe))

\* The number of 32-bit values in a sequence of tables.
RECURSIVE WordCount(_)
WordCount(items) ==
    IF items = <<>> THEN 0 ELSE Len(Head(items).words) + WordCount(Tail(items))

\* The hit sequence of the latest collect of thread t: the fixed-up locations
\* of the changed slots, in slot order.
HitSeq(t) ==
    [p \in 1..Cardinality(ChangedSlots(t)) |->
        PlusOneMod32(cover[t].pc_table[NthChangedSlot(t, p)])]

\* C12: a completed report is the header, then the hit table once if
\* flag_coverage is set, then the same table once more if flag_collect_cover
\* is set as well, and nothing else; the 32-bit values after the header
\* number signal_size + cover_size, and each table is the hit sequence of the
\* thread's latest collect.
C12_WireFraming ==
    \A t \in Threads :
        ReportDone(t) =>
            /\ Len(Payloads) = (IF flag_coverage THEN 1 ELSE 0)
                               + (IF flag_coverage /\ flag_collect_cover THEN 1 ELSE 0)
            /\ \A i \in 1..Len(Payloads) :
                   Payloads[i] = TableItem(HitSeq(t))
            /\ WordCount(Payloads) = outpipe[LastHeaderAt].reply.signal_size
                                     + outpipe[LastHeaderAt].reply.cover_size

\* Baseline {A: 0, B: 5}, current {A: 0, B: 6}, table [A, B], both flags set:
\* signal_size 1 and the one value (B + 1) mod 2^32, written twice.
C12_Witness ==
    /\ ReportDone(1)
    /\ flag_coverage /\ flag_collect_cover
    /\ cover[1].base_covcount = Snap(0, 5)
    /\ cover[1].curr_covcount = Snap(0, 6)
    /\ cover[1].total_pcs = 2
    /\ cover[1].pc_table[1] = PcA /\ cover[1].pc_table[2] = PcB
    /\ outpipe[LastHeaderAt].reply.signal_size = 1
    /\ Payloads = <<TableItem(<<PlusOneMod32(PcB)>>), TableItem(<<PlusOneMod32(PcB)>>)>>

-----------------------------------------------------------------------------
(* Properties of fail() *)

\* The operation each fatal message belongs to.
FailingOps ==
    [m \in {"failed to enable coverage", "failed to create covcount vmo",
            "failed to fetch coverage", "failed to copy coverage",
            "could not open coverage file", "pc table is too small",
            "control pipe call write failed", "signals table write failed",
            "coverage table write failed"} |->
        CASE m \in {"failed to enable coverage", "failed to create covcount vmo"} ->
                 {"cover_enable"}
          [] m \in {"failed to fetch coverage", "failed to copy coverage"} ->
                 {"cover_reset", "cover_collect"}
          [] m \in {"could not open coverage file", "pc table is too small"} ->
                 {"cover_collect"}
          [] m = "control pipe call write failed" -> {"write_header"}
          [] m = "signals table write failed" -> {"write_signal"}
          [] OTHER -> {"write_cover"}]

WriteOps == {"write_header", "write_signal", "write_cover"}

\* The process has failed in the operation performed last, and that
\* operation stopped at the failing step: no counter region after a rejected
\* enable or create, and the short write the last thing on the pipe with no
\* part of its report left to write.
FailedAtLastStep ==
    ~Running =>
        /\ fail \in DOMAIN FailingOps
        /\ last.op \in FailingOps[fail]
        /\ last.op = "cover_enable" => ~CoverEnabled(last.th)
        /\ fail = "failed to enable coverage" => last.th \notin kcov
        /\ last.op \in WriteOps =>
               /\ outpipe # <<>>
               /\ outpipe[Len(outpipe)] = ShortItem
               /\ wr[last.th].pc = "idle"

\* A short write is the last thing on the pipe, of a process that failed.
NothingAfterShortWrite ==
    \A k \in 1..Len(outpipe) :
        outpipe[k] = ShortItem => k = Len(outpipe) /\ ~Running

\* C13: a rejected enable or region creation in cover_enable, a rejected
\* refresh or copy in cover_reset and cover_collect, and a short write of the
\* header or of either table leave the process failed at that step: the rest of
\* the operation is not performed, no operation is performed after it, and
\* nothing more is written to the pipe.
C13_FatalTerminal ==
    /\ [](FailedAtLastStep /\ NothingAfterShortWrite)
    /\ [][/\ Running
          /\ fail' = "failed to enable coverage" => cover' = cover /\ kcov' = kcov
          /\ fail' = "failed to create covcount vmo" => cover' = cover
          /\ fail' \in {"failed to fetch coverage", "failed to copy coverage"} =>
                 th' = th /\ outpipe' = outpipe
          /\ (fail' # "none" /\ last'.op \in WriteOps) =>
                 Len(outpipe') = Len(outpipe) + 1]_vars

\* The header of a report with hits was cut short under flag_coverage: the
\* signal table is not written.
C13_Witness ==
    /\ fail = "control pipe call write failed"
    /\ flag_coverage
    /\ HitCount(1) >= 1
    /\ outpipe[Len(outpipe)] = ShortItem
    /\ wr[1].pc = "idle"

-----------------------------------------------------------------------------
(* Properties of snapshot_sancov *)

\* cover_collect was performed last, on thread t, and got as far as reading
\* the coverage file.
ReadPcTable(t) ==
    /\ last.op = "cover_collect"
    /\ last.th = t
    /\ fail \notin {"failed to fetch coverage", "failed to copy coverage"}

\* C14: reading the location table fails fatally when the file cannot be
\* opened and when exactly the capacity of values was read (a table of
\* MAX_COVSZ entries is rejected); otherwise it returns the number of values
\* read, so total_pcs is below MAX_COVSZ after every completed collect.
C14_CapacityGuard ==
    \A t \in Threads :
        ReadPcTable(t) =>
            LET f == file_read[t]
            IN  /\ fail = "could not open coverage file" <=> ~f.open
                /\ fail = "pc table is too small" <=>
                       (f.open /\ Len(f.data) >= MAX_COVSZ)
                /\ Running =>
                       /\ cover[t].total_pcs = Len(f.data)
                       /\ cover[t].total_pcs < MAX_COVSZ
                       /\ \A i \in 1..Len(f.data) : cover[t].pc_table[i] = f.data[i]

\* A collect met a table of exactly MAX_COVSZ entries and failed.
C14_Witness ==
    /\ ReadPcTable(1)
    /\ Len(file_read[1].data) = MAX_COVSZ
    /\ fail = "pc table is too small"

-----------------------------------------------------------------------------
(* Properties of the lifecycle and of the per-thread context *)

CoverOps == {"cover_enable", "cover_reset", "cover_collect"}

\* Where thread t is in its lifecycle; "Ready" is Enabled before the first
\* reset and Collected after a collect.
Phase(t) ==
    IF ~(CoverEnabled(t) /\ t \in kcov) THEN "Uninitialized"
    ELSE IF baseline_fresh[t] THEN "Baseline"
    ELSE "Ready"

PhaseSteps ==
    {<<"Uninitialized", "Ready">>, <<"Ready", "Baseline">>, <<"Baseline", "Ready">>}

C16_ThreadIsolation ==
    /\ [][\A t \in Threads :
             (last'.th = t /\ last'.op \in CoverOps) =>
                 \A u \in Threads \ {t} :
                     cover'[u] = cover[u] /\ th'[u].cov = th[u].cov]_vars
    /\ [](\A t \in Threads :
             Collected(t) =>
                 /\ HitCount(t) = Len(HitSeq(t))
                 /\ \A p \in 1..HitCount(t) : Hits(t)[p] = HitSeq(t)[p])

\* Thread 1 has collected a hit while thread 2 holds a different baseline
\* and an earlier result of its own.
C16_Witness ==
    /\ Collected(1)
    /\ HitCount(1) = 1
    /\ cover[2].base_covcount # cover[1].base_covcount
    /\ baseline_fresh[2]
    /\ cover[2].total_pcs = 2
    /\ th[2].cov.size = 0

\* C17: cover_reset writes base_covcount only, all MAX_COVSZ slots of it, and
\* leaves curr_covcount, pc_table, total_pcs, the hit table and the result
\* as they were; cover_collect leaves base_covcount as it was, so
\* consecutive collects diff against the same baseline, which has a value
\* from that reset in every slot whatever total_pcs the collects read.
C17_ResetCollectFrame ==
    [][\A t \in Threads :
          /\ (last'.th = t /\ last'.op = "cover_reset") =>
                 /\ cover'[t] = [cover[t] EXCEPT !.base_covcount = cover'[t].base_covcount]
                 /\ th' = th
                 /\ Running' => \A i \in Slots : cover'[t].base_covcount[i] \in CountValues
          /\ (last'.th = t /\ last'.op = "cover_collect") =>
                 cover'[t].base_covcount = cover[t].base_covcount]_vars

\* A second collect since the last reset, reading a shorter table than an
\* earlier collect, found the counters back at a baseline that is set in
\* every slot.
C17_Witness ==
    /\ Collected(1)
    /\ prior_hit[1]
    /\ HitCount(1) = 0
    /\ cover[1].total_pcs = 1
    /\ cover[1].pc_table[2] # Zero64
    /\ \A i \in Slots : cover[1].base_covcount[i] \in CountValues

-----------------------------------------------------------------------------
(* Properties of the pipe under two reporters *)

\* The places of the reply headers on the pipe.
HeaderPlaces == {k \in 1..Len(outpipe) : IsReplyItem(outpipe[k])}

\* What lies between the header at k and the next header, or the end.
After(k) ==
    LET later == {j \in HeaderPlaces : j > k}
        stop == IF later = {} THEN Len(outpipe) + 1
                ELSE CHOOSE j \in later : \A i \in later : j <= i
    IN  SubSeq(outpipe, k + 1, stop - 1)

\* The report of the header at k is over: another header follows it, or no
\* report is in progress.
Over(k) == (\E j \in HeaderPlaces : j > k) \/ (NoReportInProgress /\ Running)

\* The header at k is followed by tables only, holding the signal_size +
\* cover_size values it announces.
OwnPayload(k) ==
    /\ \A i \in 1..Len(After(k)) : After(k)[i].kind = "table"
    /\ WordCount(After(k)) = outpipe[k].reply.signal_size + outpipe[k].reply.cover_size

SerializedFraming ==
    ~overlapped =>
        \A k \in HeaderPlaces :
            Over(k) =>
                /\ OwnPayload(k)
                /\ Len(After(k)) = (IF flag_coverage THEN 1 ELSE 0)
                                   + (IF flag_coverage /\ flag_collect_cover THEN 1 ELSE 0)
                /\ \A i \in 1..Len(After(k)) :
                       Len(After(k)[i].words) = outpipe[k].reply.signal_size

-----------------------------------------------------------------------------
(* Properties of the error code of a failed kernel-native call *)

\* C19: whenever execute_syscall returns -1 for a "zx_" call, the error code
\* it stored, (-r) & 0x7F, is in 1..127, also for raw results that are
\* multiples of 128 such as -128; so the report of a finished call with
\* result -1 never carries error code 0.
C19_FailureCodeNonZero ==
    /\ (Called /\ KernelNative(sc.name) /\ sc.ret = MinusOne64) =>
           errno[sc.th] \in 1..127
    /\ \A t \in Threads :
           (Reported(t) /\ wr[t].finished /\ th[t].res = MinusOne64) =>
               LastReply.reserrno # 0

-----------------------------------------------------------------------------
(* Properties of the size of the result *)

\* C20: after every completed collect the result size is at most total_pcs,
\* which is below MAX_COVSZ, so every hit was stored below the capacity of
\* the hit table; and the signal_size and cover_size of a report are at most
\* the number of location entries read.
C20_HitTableBound ==
    \A t \in Threads :
        /\ Collected(t) =>
               /\ HitCount(t) <= cover[t].total_pcs
               /\ cover[t].total_pcs < MAX_COVSZ
        /\ Reported(t) =>
               /\ LastReply.signal_size <= cover[t].total_pcs
               /\ LastReply.cover_size <= cover[t].total_pcs

\* A report of a collect in which every location read was hit, with as many
\* locations as a table may have.
C20_Witness ==
    /\ Reported(1)
    /\ cover[1].total_pcs = MAX_COVSZ - 1
    /\ LastReply.signal_size = MAX_COVSZ - 1
    /\ LastReply.cover_size = MAX_COVSZ - 1

=============================================================================
